---- MODULE Spec2Model ----
(***************************************************************************)
(* Model of the mouse state codec (mousetracking/algorithm/objects/        *)
(* mouse.py) and of the state-transition analysis                          *)
(* (mousetracking/algorithm/analyzer.py).                                   *)
(*                                                                         *)
(* Python dictionaries are functions whose DOMAIN is the set of keys that  *)
(* are present.  Python values None / True / False are the strings         *)
(* "None" / "True" / "False".  Python sequences are 0-based; the operator  *)
(* At reads a TLA+ sequence with a 0-based index.  Times (time_scale,      *)
(* durations, len_threshold) are whole multiples of one time unit.         *)
(***************************************************************************)
EXTENDS Integers, Sequences, FiniteSets, TLC

VARIABLES
    \* ---- codec (mouse.py) ----
    cpc,            \* position of the codec caller
    origin,         \* the caller that ran last: the test loop or set_state
    value,          \* integer argument of int_to_state
    state,          \* the dictionary (mutated in place by state_to_int)
    arg,            \* the dictionary as it was when state_to_int was called
    encoded,        \* outcome of state_to_int: a value or a raised exception
    frame_id,       \* argument frame_id of MouseTrack.set_state
    raised,         \* exception that left MouseTrack.set_state, "" for none
    \* ---- analyzer (analyzer.py) ----
    pc,             \* position inside get_mouse_state_transitions / _graph
    has_trajectory, \* 'pass2/mouse_trajectory' is a key of self.data
    mouse_state,    \* self.data['pass2/mouse_trajectory'].states, which is
                    \* the array MouseTrack.states that set_state writes
    time_scale,     \* self.time_scale
    states_arg,     \* argument states: <<>> is None, <<S>> is the collection S
    len_threshold,  \* argument len_threshold
    states,         \* local states after the None default was resolved
    changes,        \* np.nonzero(np.diff(mouse_state) != 0)[0]
    idx,            \* position of the for loop in changes (1-based)
    k,              \* loop variable
    trans,          \* local trans
    duration,       \* local duration
    last_trans,     \* local last_trans
    transitions,    \* defaultdict(list): (from, to) -> list of durations
    todo,           \* keys of transitions not yet visited by iteritems()
    nodes,          \* defaultdict(int): node name -> summed duration
    edges,          \* MultiDiGraph adjacency: (u, v) -> list of edge data
    graph_nodes     \* MultiDiGraph nodes: node name -> attribute dictionary

codec_vars == <<cpc, origin, value, state, arg, encoded, frame_id, raised>>
analysis_vars == <<pc, has_trajectory, time_scale, states_arg, len_threshold,
                   states, changes, idx, k, trans, duration, last_trans,
                   transitions, todo, nodes, edges, graph_nodes>>
analyzer_vars == <<mouse_state, analysis_vars>>
vars == <<codec_vars, analyzer_vars>>

(***************************************************************************)
(* Helpers for dictionaries and sequences                                  *)
(***************************************************************************)
EmptyDict == [x \in {} |-> "None"]

\* dict.pop(key) / del dict[key]: the dictionary without the key
DictPop(d, key) == [x \in DOMAIN d \ {key} |-> d[x]]

\* dict[key] = val
DictSet(d, key, val) == [x \in DOMAIN d \cup {key} |-> IF x = key THEN val ELSE d[x]]

\* dict.get(key) with the default None
DictGet(d, key) == IF key \in DOMAIN d THEN d[key] ELSE "None"

\* 0-based indexing of a Python sequence
At(seq, i) == seq[i + 1]

RECURSIVE SeqSum(_)
SeqSum(seq) == IF seq = <<>> THEN 0 ELSE Head(seq) + SeqSum(Tail(seq))

(***************************************************************************)
(* mouse.py: the codec                                                     *)
(***************************************************************************)
VALID_STATES == {0, 10, 11, 12, 13, 20, 21}

\* outcome of a call: the returned value, or the raised exception and no value
Returned(v) == [raised |-> "", returned |-> <<v>>]
Raised(exc) == [raised |-> exc, returned |-> <<>>]

\* state_to_int, the branch `underground == False` (lines 41-50): the value
\* and the dictionary left over, or the KeyError of state.pop('location')
EncodeOverground(st) ==
    IF "location" \notin DOMAIN st
    THEN [exc |-> "KeyError", value |-> 10, rest |-> st]
    ELSE LET location == st["location"]
             popped == DictPop(st, "location")
         IN  IF location = "air" THEN [exc |-> "", value |-> 11, rest |-> popped]
             ELSE IF location = "hill" THEN [exc |-> "", value |-> 12, rest |-> popped]
             ELSE IF location = "valley" THEN [exc |-> "", value |-> 13, rest |-> popped]
             ELSE [exc |-> "", value |-> 10, rest |-> DictSet(popped, "location", location)]

\* state_to_int, the branch `underground == True` (lines 53-56)
EncodeUnderground(st) ==
    IF DictGet(st, "location") = "burrow"
    THEN [exc |-> "", value |-> 21, rest |-> DictPop(st, "location")]
    ELSE [exc |-> "", value |-> 20, rest |-> st]

\* state_to_int up to the final check: value and the dictionary left over
EncodeBranches(st) ==
    LET underground == DictGet(st, "underground")
        popped == DictPop(st, "underground")
    IN  IF underground = "False" THEN EncodeOverground(popped)
        ELSE IF underground = "True" THEN EncodeUnderground(popped)
        ELSE [exc |-> "", value |-> 0, rest |-> popped]

\* state_to_int(state): the outcome of the call
state_to_int(st) ==
    LET b == EncodeBranches(st)
    IN  IF b.exc # "" THEN Raised(b.exc)
        ELSE IF DOMAIN b.rest # {} THEN Raised("RuntimeError")
        ELSE Returned(b.value)

\* the dictionary the caller holds after state_to_int has run
StateAfterEncode(st) == EncodeBranches(st).rest

\* value_loc of int_to_state (line 69)
ValueLoc(v) == v % 10

\* int_to_state(value)
int_to_state(v) ==
    LET value_loc == ValueLoc(v)
    IN  IF 10 <= value_loc /\ value_loc < 20
        THEN LET st == DictSet(EmptyDict, "underground", "False")
             IN  IF value_loc = 11 THEN DictSet(st, "location", "air")
                 ELSE IF value_loc = 12 THEN DictSet(st, "location", "hill")
                 ELSE IF value_loc = 13 THEN DictSet(st, "location", "valley")
                 ELSE st
        ELSE IF 20 <= value_loc /\ value_loc < 30
        THEN LET st == DictSet(EmptyDict, "underground", "True")
             IN  IF value_loc = 21 THEN DictSet(st, "location", "burrow")
                 ELSE st
        ELSE EmptyDict

\* the integers test_state_conversion feeds to int_to_state: xrange(0, 100)
DecodeInputs == 0 .. 99

\* the dictionaries a caller hands to state_to_int / MouseTrack.set_state
UndergroundValues == {"True", "False", "None"}
LocationValues == {"air", "hill", "valley", "burrow", "nonexistent"}
ExtraValues == {"x"}
KeyValues(key) ==
    IF key = "underground" THEN UndergroundValues
    ELSE IF key = "location" THEN LocationValues
    ELSE ExtraValues
CallerStates ==
    UNION { [ks -> UndergroundValues \cup LocationValues \cup ExtraValues]
            : ks \in SUBSET {"underground", "location", "extra"} }
GivenStates == { s \in CallerStates : \A key \in DOMAIN s : s[key] \in KeyValues(key) }

(***************************************************************************)
(* The codec's callers                                                     *)
(***************************************************************************)
CodecIdle ==
    /\ cpc = "idle"
    /\ origin = "none"
    /\ value = 0
    /\ state = EmptyDict
    /\ arg = EmptyDict
    /\ encoded = Returned(0)
    /\ frame_id = 0
    /\ raised = ""

\* np.zeros(len(trajectory), np.int): the states of a new MouseTrack (line 117)
Zeros(n) == [i \in 1 .. n |-> 0]

\* self.states[frame_id] = code on an array: a negative index counts from the
\* end; the result holds the exception, or the array after the assignment
SetItem(a, f, code) ==
    LET i == IF f < 0 THEN f + Len(a) ELSE f
    IN  IF i < 0 \/ i >= Len(a)
        THEN [exc |-> "IndexError", array |-> a]
        ELSE [exc |-> "", array |-> [a EXCEPT ![i + 1] = code]]

\* one pass of the loop of test_state_conversion (lines 144-147): value is the
\* next integer of xrange(0, 100); state = int_to_state(value); state_to_int
\* is called only when state is not empty (`state and ...`), and then it
\* mutates the dictionary and either raises, or returns a number whose
\* difference from value raises AssertionError
TestPass ==
    /\ \/ cpc = "idle"
       \/ cpc = "test_loop" /\ value + 1 \in DecodeInputs
    /\ \E v \in DecodeInputs :
          /\ v = IF cpc = "idle" THEN 0 ELSE value + 1
          /\ LET st == int_to_state(v)
                 out == state_to_int(st)
             IN  /\ value' = v
                 /\ IF st # EmptyDict
                    THEN /\ arg' = st
                         /\ encoded' = out
                         /\ state' = StateAfterEncode(st)
                         /\ cpc' = IF out.raised # "" THEN "test_raised"
                                   ELSE IF v # out.returned[1]
                                   THEN "AssertionError"
                                   ELSE "test_loop"
                    ELSE /\ state' = st
                         /\ UNCHANGED <<arg, encoded>>
                         /\ cpc' = "test_loop"
    /\ origin' = "int_to_state"
    /\ UNCHANGED <<frame_id, raised>>
    /\ UNCHANGED analyzer_vars

\* the loop of test_state_conversion is exhausted: the test prints its
\* message and returns (line 148)
TestReturn ==
    /\ cpc = "test_loop"
    /\ value + 1 \notin DecodeInputs
    /\ cpc' = "test_done"
    /\ UNCHANGED <<origin, value, state, arg, encoded, frame_id, raised>>
    /\ UNCHANGED analyzer_vars

\* MouseTrack.set_state(frame_id, state), lines 124-125: state_to_int runs
\* first (and mutates the caller's dictionary); when it returns, its value is
\* stored in self.states[frame_id]
SetState ==
    /\ cpc \in {"idle", "set_state_done", "set_state_raised"}
    /\ \E f \in (0 - 1) .. Len(mouse_state), s \in GivenStates :
          LET out == state_to_int(s)
              set == SetItem(mouse_state, f, out.returned[1])
          IN  /\ frame_id' = f
              /\ arg' = s
              /\ encoded' = out
              /\ state' = StateAfterEncode(s)
              /\ IF out.raised # ""
                 THEN /\ raised' = out.raised
                      /\ mouse_state' = mouse_state
                      /\ cpc' = "set_state_raised"
                 ELSE /\ raised' = set.exc
                      /\ mouse_state' = set.array
                      /\ cpc' = IF set.exc = "" THEN "set_state_done"
                                ELSE "set_state_raised"
    /\ origin' = "caller"
    /\ UNCHANGED value
    /\ UNCHANGED analysis_vars

(***************************************************************************)
(* analyzer.py: get_mouse_state_transitions                                *)
(***************************************************************************)
\* np.diff(a)
Diff(a) == [i \in 1 .. (Len(a) - 1) |-> a[i + 1] - a[i]]

\* a != 0, element-wise
NotEqualZero(a) == [i \in DOMAIN a |-> a[i] # 0]

\* np.nonzero(a)[0] for a boolean array: the 0-based indices that hold True
RECURSIVE NonzeroUpTo(_, _)
NonzeroUpTo(a, n) ==
    IF n = 0 THEN <<>>
    ELSE LET r == NonzeroUpTo(a, n - 1)
         IN  IF a[n] THEN Append(r, n - 1) ELSE r
Nonzero(a) == NonzeroUpTo(a, Cardinality(DOMAIN a))

\* np.nonzero(np.diff(mouse_state) != 0)[0]  (line 87)
ChangePoints(ms) == Nonzero(NotEqualZero(Diff(ms)))

\* duration = (k - last_trans)*self.time_scale  (line 89)
Duration(kk, last, ts) == (kk - last) * ts

\* the condition of lines 90-91 with >= for >
RecordedAtLeast(tr, dur, sts, thr) == tr[1] \in sts /\ tr[2] \in sts /\ dur >= thr

\* the condition of lines 90-91
Recorded(tr, dur, sts, thr) == tr[1] \in sts /\ tr[2] \in sts /\ dur > thr

\* last_trans = k moved inside the if
NextLastTransIfRecorded(kk, last, rec) == IF rec THEN kk ELSE last

\* last_trans = k  (line 94), outside the if
NextLastTrans(kk, last, rec) == kk

\* transitions[trans].append(duration) on a defaultdict(list)  (line 93)
AppendDuration(t, tr, dur) ==
    [p \in DOMAIN t \cup {tr} |->
        IF p = tr THEN Append(IF tr \in DOMAIN t THEN t[tr] ELSE <<>>, dur)
        ELSE t[p]]

NoTransitions == [p \in {} |-> <<>>]
NoNodes == [n \in {} |-> 0]
NoEdges == [p \in {} |-> <<>>]
NoGraphNodes == [n \in {} |-> EmptyDict]

\* lines 75-86: read the trajectory, resolve the default of states, set up.
\* The default is mouse.STATES.keys() (line 82); the module mouse defines
\* VALID_STATES and no STATES, so the default raises AttributeError.
GetTransitionsEnter ==
    /\ pc = "start"
    /\ IF ~has_trajectory
       THEN /\ pc' = "RuntimeError"
            /\ UNCHANGED <<states, changes, transitions, last_trans>>
       ELSE IF states_arg = <<>>
       THEN /\ pc' = "AttributeError"
            /\ UNCHANGED <<states, changes, transitions, last_trans>>
       ELSE /\ states' = states_arg[1]
            /\ transitions' = NoTransitions
            /\ last_trans' = 0
            /\ changes' = ChangePoints(mouse_state)
            /\ pc' = "loop"
    /\ idx' = 1
    /\ UNCHANGED codec_vars
    /\ UNCHANGED <<has_trajectory, mouse_state, time_scale, states_arg,
                   len_threshold, k, trans, duration, todo, nodes, edges,
                   graph_nodes>>

\* one pass through the body of the for loop, lines 87-94
LoopIteration ==
    /\ pc = "loop"
    /\ idx <= Len(changes)
    /\ LET kk == changes[idx]
           tr == <<At(mouse_state, kk), At(mouse_state, kk + 1)>>
           dur == Duration(kk, last_trans, time_scale)
           rec == Recorded(tr, dur, states, len_threshold)
       IN  /\ k' = kk
           /\ trans' = tr
           /\ duration' = dur
           /\ transitions' = IF rec THEN AppendDuration(transitions, tr, dur)
                             ELSE transitions
           /\ last_trans' = NextLastTrans(kk, last_trans, rec)
    /\ idx' = idx + 1
    /\ UNCHANGED codec_vars
    /\ UNCHANGED <<pc, has_trajectory, mouse_state, time_scale,
                   states_arg, len_threshold, states, changes, todo, nodes,
                   edges, graph_nodes>>

\* the loop is exhausted: return transitions  (line 96)
GetTransitionsReturn ==
    /\ pc = "loop"
    /\ idx > Len(changes)
    /\ pc' = "transitions_done"
    /\ UNCHANGED codec_vars
    /\ UNCHANGED <<has_trajectory, mouse_state, time_scale, states_arg,
                   len_threshold, states, changes, idx, k, trans, duration,
                   last_trans, transitions, todo, nodes, edges, graph_nodes>>

(***************************************************************************)
(* analyzer.py: get_mouse_transition_graph                                 *)
(***************************************************************************)
\* the loop of lines 119-120: graph.add_node(node, duration=duration)
AddNodes(g, nd) ==
    [n \in DOMAIN g \cup DOMAIN nd |->
        IF n \in DOMAIN nd
        THEN DictSet(IF n \in DOMAIN g THEN g[n] ELSE EmptyDict, "duration", nd[n])
        ELSE g[n]]

\* lines 104-105, after get_mouse_state_transitions returned (line 102)
GraphEnter ==
    /\ pc = "transitions_done"
    /\ edges' = NoEdges
    /\ graph_nodes' = NoGraphNodes
    /\ nodes' = NoNodes
    /\ todo' = DOMAIN transitions
    /\ pc' = "edges"
    /\ UNCHANGED codec_vars
    /\ UNCHANGED <<has_trajectory, mouse_state, time_scale, states_arg,
                   len_threshold, states, changes, idx, k, trans, duration,
                   last_trans, transitions>>

\* the first pass through the loop over transitions.iteritems(): line 108,
\* u = mouse.STATES[trans[0]], raises AttributeError (mouse has no STATES)
\* before anything is added to nodes or to the graph
GraphAddEdge ==
    /\ pc = "edges"
    /\ \E key \in todo :
          /\ pc' = "AttributeError"
          /\ UNCHANGED <<todo, nodes, edges, graph_nodes>>
    /\ UNCHANGED codec_vars
    /\ UNCHANGED <<has_trajectory, mouse_state, time_scale, states_arg,
                   len_threshold, states, changes, idx, k, trans, duration,
                   last_trans, transitions>>

\* lines 119-122, reached when transitions is empty: the loop over nodes
\* and the return of the graph
GraphReturn ==
    /\ pc = "edges"
    /\ todo = {}
    /\ graph_nodes' = AddNodes(graph_nodes, nodes)
    /\ pc' = "graph_done"
    /\ UNCHANGED codec_vars
    /\ UNCHANGED <<has_trajectory, mouse_state, time_scale, states_arg,
                   len_threshold, states, changes, idx, k, trans, duration,
                   last_trans, transitions, todo, nodes, edges>>

(***************************************************************************)
(* Inputs of the analysis                                                  *)
(***************************************************************************)
MaxLen == 5
MaxTimeScale == 2
MaxThreshold == 2

\* the codes that occur in a sequence of per-frame states; 5 is no valid state
SeqCodes == {5, 10, 11}

RECURSIVE SeqsUpTo(_, _)
SeqsUpTo(S, n) ==
    IF n = 0 THEN {<<>>}
    ELSE LET shorter == SeqsUpTo(S, n - 1)
         IN  shorter \cup { Append(q, c) : q \in {r \in shorter : Len(r) = n - 1}, c \in S }

\* the sequence of the transition-extraction scenario, one that moves between
\* overground and underground states, one that repeats a transition, and
\* two that repeat a transition after dwell times of different lengths
ScenarioSequences ==
    { <<10, 10, 10, 11, 11, 12>>,
      <<10, 10, 20, 11, 11, 20>>,
      <<5, 10, 10, 11, 10, 10, 11>>,
      <<10, 10, 11, 10, 10, 11>>,
      <<5, 10, 10, 11, 10, 10, 10, 11>> }

StateSequences == SeqsUpTo(SeqCodes, MaxLen) \cup ScenarioSequences

\* the argument states: None, or a collection of codes
StatesArgs == { <<>>, <<{10, 11}>>, <<{10, 11, 12}>>, <<{5, 10, 11, 20}>> }

\* the number of frames of a track whose states set_state fills
MaxFrames == 2

(***************************************************************************)
(* Specifications                                                          *)
(***************************************************************************)
\* the analyzer: one call of get_mouse_state_transitions, possibly made by
\* get_mouse_transition_graph, which then goes on to build the graph; the
\* trajectory was read from storage (MouseTrack.create_from_array)
Init ==
    /\ CodecIdle
    /\ pc = "start"
    /\ has_trajectory \in BOOLEAN
    /\ mouse_state \in (IF has_trajectory THEN StateSequences ELSE {<<>>})
    /\ time_scale \in 1 .. MaxTimeScale
    /\ states_arg \in StatesArgs
    /\ len_threshold \in 0 .. MaxThreshold
    /\ states = {}
    /\ changes = <<>>
    /\ idx = 1
    /\ k = 0
    /\ trans = <<>>
    /\ duration = 0
    /\ last_trans = 0
    /\ transitions = NoTransitions
    /\ todo = {}
    /\ nodes = NoNodes
    /\ edges = NoEdges
    /\ graph_nodes = NoGraphNodes

Next ==
    \/ GetTransitionsEnter
    \/ LoopIteration
    \/ GetTransitionsReturn
    \/ GraphEnter
    \/ GraphAddEdge
    \/ GraphReturn

Spec == Init /\ [][Next]_vars

\* the codec: int_to_state and state_to_int and their callers; the track is
\* a new MouseTrack, whose states are zeros
InitCodec ==
    /\ CodecIdle
    /\ pc = "idle"
    /\ has_trajectory = TRUE
    /\ mouse_state \in { Zeros(n) : n \in 0 .. MaxFrames }
    /\ time_scale = 1
    /\ states_arg = <<>>
    /\ len_threshold = 0
    /\ states = {}
    /\ changes = <<>>
    /\ idx = 1
    /\ k = 0
    /\ trans = <<>>
    /\ duration = 0
    /\ last_trans = 0
    /\ transitions = NoTransitions
    /\ todo = {}
    /\ nodes = NoNodes
    /\ edges = NoEdges
    /\ graph_nodes = NoGraphNodes

NextCodec ==
    \/ TestPass
    \/ TestReturn
    \/ SetState

SpecCodec == InitCodec /\ [][NextCodec]_vars

(***************************************************************************)
(* What the specification says, stated on the inputs alone                 *)
(***************************************************************************)
\* the codes that round-trip according to the specification
RoundTripCodes == {10, 11, 12, 13, 20, 21}

\* a dictionary as the specification's (underground, location) pair
UndergroundOf(st) == DictGet(st, "underground")
LocationOf(st) == DictGet(st, "location")

\* the rows of the encoding table
TableCode(st) ==
    LET u == UndergroundOf(st)
        l == LocationOf(st)
    IN  IF u = "None" THEN 0
        ELSE IF u = "False"
        THEN (IF l = "air" THEN 11 ELSE IF l = "hill" THEN 12
              ELSE IF l = "valley" THEN 13 ELSE 10)
        ELSE (IF l = "burrow" THEN 21 ELSE 20)
IsTableRow(st) ==
    /\ DOMAIN st \subseteq {"underground", "location"}
    /\ \/ UndergroundOf(st) = "None" /\ "location" \notin DOMAIN st
       \/ UndergroundOf(st) = "False"
            /\ ("location" \in DOMAIN st => st["location"] \in {"air", "hill", "valley"})
       \/ UndergroundOf(st) = "True"
            /\ ("location" \in DOMAIN st => st["location"] = "burrow")

\* j is a change point of the sequence ms (0-based)
IsChangePoint(ms, j) == 0 <= j /\ j + 1 < Len(ms) /\ At(ms, j) # At(ms, j + 1)
ChangePointSet(ms) == { j \in 0 .. (Len(ms) - 2) : IsChangePoint(ms, j) }

SetMax(S) == CHOOSE x \in S : \A y \in S : y <= x

\* the change point before j, or 0 when j is the first one
PrevChangeIndex(ms, j) ==
    LET before == { i \in ChangePointSet(ms) : i < j }
    IN  IF before = {} THEN 0 ELSE SetMax(before)

\* the duration the specification gives the change point j
SpecDuration(ms, ts, j) == (j - PrevChangeIndex(ms, j)) * ts

\* the number of consecutive frames, ending with frame j, spent in ms[j]
DwellLength(ms, j) ==
    Cardinality({ i \in 0 .. j : \A m \in i .. j : At(ms, m) = At(ms, j) })

\* the change point j passes the filter of allowed codes and threshold
PassesFilter(ms, ts, sts, thr, j) ==
    /\ At(ms, j) \in sts
    /\ At(ms, j + 1) \in sts
    /\ SpecDuration(ms, ts, j) > thr

\* the durations expected under key, from the change points up to limit
RECURSIVE ExpectedDurations(_, _, _, _, _, _)
ExpectedDurations(ms, ts, sts, thr, key, limit) ==
    IF limit < 0 THEN <<>>
    ELSE LET rest == ExpectedDurations(ms, ts, sts, thr, key, limit - 1)
         IN  IF /\ IsChangePoint(ms, limit)
                /\ <<At(ms, limit), At(ms, limit + 1)>> = key
                /\ PassesFilter(ms, ts, sts, thr, limit)
             THEN Append(rest, SpecDuration(ms, ts, limit))
             ELSE rest

\* the last change point the loop has processed, -1 before the first
Processed == IF idx = 1 THEN 0 - 1 ELSE k

AllKeys(ms) == { <<At(ms, j), At(ms, j + 1)>> : j \in ChangePointSet(ms) }

RECURSIVE TotalRecorded(_, _)
TotalRecorded(t, keys) ==
    IF keys = {} THEN 0
    ELSE LET key == CHOOSE x \in keys : TRUE
         IN  Len(t[key]) + TotalRecorded(t, keys \ {key})

RECURSIVE TotalDuration(_, _)
TotalDuration(t, keys) ==
    IF keys = {} THEN 0
    ELSE LET key == CHOOSE x \in keys : TRUE
         IN  SeqSum(t[key]) + TotalDuration(t, keys \ {key})

\* a code -> category mapping as the specification allows it: supplied by
\* the caller, and free to give several codes one category
CategoryOf(c) ==
    IF c = 0 THEN "unknown" ELSE IF c < 20 THEN "overground" ELSE "underground"
CategoryPair(key) == <<CategoryOf(key[1]), CategoryOf(key[2])>>
ValidKey(key) == key[1] \in VALID_STATES /\ key[2] \in VALID_STATES

\* the records that map to the pair of categories p / start in category n
KeysOfEdge(p) == { key \in DOMAIN transitions : CategoryPair(key) = p }
KeysFromNode(n) == { key \in DOMAIN transitions : CategoryOf(key[1]) = n }

\* get_mouse_transition_graph has come to its end, by return or by exception
GraphCallEnded == pc \in {"graph_done", "AttributeError"}

(***************************************************************************)
(* C1.  For every code c of {10, 11, 12, 13, 20, 21}, state_to_int applied *)
(* to int_to_state(c) returns c.  Checked on the dictionaries the test     *)
(* loop decodes; the test itself skips state_to_int for an empty one.      *)
(***************************************************************************)
C1_RoundTripValidDomain ==
    (cpc = "test_loop" /\ value \in RoundTripCodes)
        => /\ state = int_to_state(value)
           /\ state_to_int(state) = Returned(value)

(***************************************************************************)
(* C2.  For every value of 0..99 whose int_to_state(value) is not empty,   *)
(* state_to_int applied to it returns value.  The formula holds, but only  *)
(* because C2_DecodeAlwaysEmpty holds too: value % 10 is below 10, so no   *)
(* decoded dictionary is ever non-empty and the guard is never true.       *)
(***************************************************************************)
C2_GuardedRoundTrip ==
    (origin = "int_to_state" /\ int_to_state(value) # EmptyDict)
        => /\ cpc \in {"test_loop", "test_done"}
           /\ encoded = Returned(value)

C2_DecodeAlwaysEmpty ==
    origin = "int_to_state" => state = EmptyDict /\ int_to_state(value) = EmptyDict

(***************************************************************************)
(* C3.  state_to_int returns the code of the encoding table, without       *)
(* raising, for each of the seven valid combinations.                      *)
(***************************************************************************)
C3_EncodingTable ==
    (cpc \in {"set_state_done", "set_state_raised"} /\ IsTableRow(arg))
        => encoded = Returned(TableCode(arg))

(***************************************************************************)
(* C4.  state_to_int raises the invalid-state error (RuntimeError) for     *)
(* every dictionary that is no row of the encoding table.                  *)
(***************************************************************************)
C4_EncodeRejection ==
    (cpc \in {"set_state_done", "set_state_raised"} /\ ~IsTableRow(arg))
        => encoded = Raised("RuntimeError")

(***************************************************************************)
(* C5.  The duration computed at a change point k is the number of         *)
(* consecutive frames spent in states[k] right before the change, times    *)
(* the time scale.                                                         *)
(***************************************************************************)
C5_DurationIsDwellLength ==
    /\ (pc = "loop" /\ idx > 1)
          => duration = DwellLength(mouse_state, k) * time_scale
    /\ (/\ pc = "transitions_done"
        /\ mouse_state = <<10, 10, 10, 11, 11, 12>>
        /\ time_scale = 1 /\ len_threshold = 0)
          => transitions = (<<10, 11>> :> <<3>>) @@ (<<11, 12>> :> <<2>>)

(***************************************************************************)
(* C6.  With states=None and len_threshold=0 the number of durations       *)
(* recorded over all keys is the number of change points of the sequence,  *)
(* and the call raises no error.                                           *)
(***************************************************************************)
C6_AllChangePointsRecorded ==
    (has_trajectory /\ states_arg = <<>> /\ len_threshold = 0 /\ pc # "start")
        => /\ pc # "AttributeError"
           /\ pc = "transitions_done"
                 => TotalRecorded(transitions, DOMAIN transitions)
                       = Cardinality(ChangePointSet(mouse_state))

(***************************************************************************)
(* C7.  A change point contributes its duration to the record of           *)
(* (states[k], states[k+1]) exactly when both codes are allowed and the    *)
(* duration is strictly greater than the threshold; a duration equal to    *)
(* the threshold is never recorded; the durations of a key are in          *)
(* increasing index order.                                                 *)
(***************************************************************************)
C7_RecordingCondition ==
    (pc \in {"loop", "transitions_done"})
        => /\ \A key \in AllKeys(mouse_state) \cup DOMAIN transitions :
                LET expected == ExpectedDurations(mouse_state, time_scale, states,
                                                  len_threshold, key, Processed)
                IN  IF expected = <<>> THEN key \notin DOMAIN transitions
                    ELSE key \in DOMAIN transitions /\ transitions[key] = expected
           /\ \A key \in DOMAIN transitions : \A i \in 1 .. Len(transitions[key]) :
                transitions[key][i] > len_threshold

\* the analysis returned; one change point was left out only because its
\* duration equals the threshold, one because of its codes, and one key
\* holds two durations of different lengths, the one of the earlier change
\* point first
C7_Witness ==
    /\ pc = "transitions_done"
    /\ \E j \in ChangePointSet(mouse_state) :
          /\ At(mouse_state, j) \in states /\ At(mouse_state, j + 1) \in states
          /\ SpecDuration(mouse_state, time_scale, j) = len_threshold
          /\ j > 0
    /\ \E j \in ChangePointSet(mouse_state) : At(mouse_state, j) \notin states
    /\ \E key \in DOMAIN transitions :
          /\ Len(transitions[key]) >= 2
          /\ transitions[key][1] # transitions[key][2]
          /\ \E i, j \in ChangePointSet(mouse_state) :
                /\ i < j
                /\ <<At(mouse_state, i), At(mouse_state, i + 1)>> = key
                /\ <<At(mouse_state, j), At(mouse_state, j + 1)>> = key
                /\ transitions[key][1] = SpecDuration(mouse_state, time_scale, i)
                /\ transitions[key][2] = SpecDuration(mouse_state, time_scale, j)

(***************************************************************************)
(* C8.  Two distinct (from, to) records that map to the same pair of node  *)
(* names give one edge, whose count is the sum of the counts and whose     *)
(* rate is 1/mean of the concatenated durations.                           *)
(***************************************************************************)
C8_MergedEdge ==
    (GraphCallEnded /\ \E a, b \in DOMAIN transitions :
                          /\ a # b /\ ValidKey(a) /\ ValidKey(b)
                          /\ CategoryPair(a) = CategoryPair(b))
        => /\ pc = "graph_done"
           /\ \A key \in DOMAIN transitions :
                 LET p == CategoryPair(key)
                 IN  Cardinality(KeysOfEdge(p)) >= 2
                        => /\ p \in DOMAIN edges
                           /\ Len(edges[p]) = 1
                           /\ edges[p][1].count = TotalRecorded(transitions, KeysOfEdge(p))
                           /\ edges[p][1].rate.num = TotalRecorded(transitions, KeysOfEdge(p))
                           /\ edges[p][1].rate.den = TotalDuration(transitions, KeysOfEdge(p))

(***************************************************************************)
(* C9.  Every node of the returned graph carries a duration, the sum of    *)
(* the durations of the records that start at the node; also a node that   *)
(* is only the destination of transitions.                                 *)
(***************************************************************************)
C9_EveryNodeHasDuration ==
    (GraphCallEnded /\ DOMAIN transitions # {}
                    /\ \A key \in DOMAIN transitions : ValidKey(key))
        => /\ pc = "graph_done"
           /\ \A key \in DOMAIN transitions :
                 \A n \in {CategoryOf(key[1]), CategoryOf(key[2])} :
                    /\ n \in DOMAIN graph_nodes
                    /\ "duration" \in DOMAIN graph_nodes[n]
                    /\ graph_nodes[n]["duration"]
                          = TotalDuration(transitions, KeysFromNode(n))

(***************************************************************************)
(* C10.  last_trans starts at 0 and becomes k at every change point, in    *)
(* increasing order, whether or not the transition was recorded; the       *)
(* duration of a change point is fixed by the positions of the change      *)
(* points and the time scale alone.                                        *)
(***************************************************************************)
C10_LastTransAdvances ==
    pc = "loop"
        => IF idx = 1 THEN last_trans = 0
           ELSE /\ IsChangePoint(mouse_state, k)
                /\ Cardinality({ j \in ChangePointSet(mouse_state) : j < k }) = idx - 2
                /\ last_trans = k
                /\ duration = SpecDuration(mouse_state, time_scale, k)

\* the loop has just recorded a change point whose predecessor was filtered
\* out, once by its codes and once by the threshold
C10_Witness ==
    /\ pc = "loop"
    /\ idx > 3
    /\ last_trans = k
    /\ trans \in DOMAIN transitions
    /\ duration > len_threshold
    /\ LET j == PrevChangeIndex(mouse_state, k)
           i == PrevChangeIndex(mouse_state, j)
       IN  /\ IsChangePoint(mouse_state, j)
           /\ At(mouse_state, j) \in states /\ At(mouse_state, j + 1) \in states
           /\ SpecDuration(mouse_state, time_scale, j) <= len_threshold
           /\ IsChangePoint(mouse_state, i)
           /\ At(mouse_state, i) \notin states

====
